---- MODULE Spec2Model ----
(***************************************************************************)
(* Zentry vault: the envelope encryption of crypto.py and the two-level    *)
(* unlock / save protocol of vault.py, as a state machine over the three   *)
(* persisted files meta.json, real.zvlt and decoy.zvlt.                    *)
(*                                                                         *)
(* Cryptography is symbolic.  An AES-GCM ciphertext is the term            *)
(* [key, nonce, aad, pt]; decryption returns pt exactly when key, nonce    *)
(* and aad are the ones used to encrypt and raises InvalidTag otherwise.   *)
(* PBKDF2 is an injective function of (password, salt).  os.urandom is an  *)
(* entropy source whose outputs never repeat: the n-th value drawn is n.   *)
(***************************************************************************)
EXTENDS Integers, Sequences, FiniteSets, TLC

VARIABLES
    meta,       \* content of meta.json, or NoFile
    real,       \* content of real.zvlt, or NoFile
    decoy,      \* content of decoy.zvlt, or NoFile
    urandom,    \* how many values os.urandom has handed out so far
    result,     \* what the last Vault call returned or raised
    given,      \* history: the arguments and CEKs of the last init_new
    sealed,     \* history: the (CEK, nonce) pairs of every blob sealed so far
    writes,     \* history: how many times the files were written (init_new,
                \* a save that succeeded, an edit from outside)
    saving      \* the save_real_items calls in progress, one per CLI process:
                \* the arguments and the record read at the start of the call

vars == <<meta, real, decoy, urandom, result, given, sealed, writes, saving>>

-----------------------------------------------------------------------------
(* Bounds of the model *)

MaxWrites == 3

\* Password strings a caller may type for L1 and for the decoy.
Passwords == {"a", "b"}

\* Optional[str]: None is <<>>, a supplied string s is <<s>>.  An L2 may be
\* absent, the empty string, or one of the passwords.
None == <<>>
Some(s) == <<s>>
OptPasswords == {None, Some("")} \cup {Some(p) : p \in Passwords}

\* Items a caller may store (the two share a name), and the lists of them a
\* caller may save: empty, one item, and the two in the order Item2, Item1.
Item1 == [name |-> "f.txt", type |-> "file", data |-> "cA=="]
Item2 == [name |-> "f.txt", type |-> "file", data |-> "cQ=="]
ItemLists == { <<>>, <<Item1>>, <<Item2, Item1>> }

-----------------------------------------------------------------------------
(* Python values *)

NoFile == [nofile |-> TRUE]          \* the path does not exist
Null == [null |-> TRUE]              \* JSON null / Python None inside a record

Raise(e) == [raised |-> TRUE, exc |-> e]
Return(v) == [raised |-> FALSE, value |-> v]

\* Python truthiness of an Optional[str]: None and "" are falsy.
bool(opt) == opt # None /\ opt[1] # ""

\* A JSON object is a record; {} is the record with no field.
EmptyDict == <<>>

\* d.get(k, default)
get(d, k, default) == IF k \in DOMAIN d THEN d[k] ELSE default

\* d[k], as a Return, or the KeyError it raises when d has no key k.
getitem(d, k) == IF k \in DOMAIN d THEN Return(d[k]) ELSE Raise("KeyError")

\* d[k] = v
setitem(d, k, v) == (k :> v) @@ d

\* d without its key k
delitem(d, k) == [j \in DOMAIN d \ {k} |-> d[j]]

-----------------------------------------------------------------------------
(* crypto.py *)

AAD_HEADER == "zentry-v1"

b64encode(b) == [b64 |-> b]
b64decode(s) == s.b64

\* A derivation that forgets the password (the key depends on the salt alone).
derive_key_from_salt_only(password, salt) == [password |-> "", salt |-> salt]

derive_key(password, salt) == [password |-> password, salt |-> salt]

\* An encryption under a constant nonce instead of a drawn one.
aesgcm_encrypt_constant_nonce(key, plaintext, aad, r) ==
    LET nonce == 0
    IN  [nonce |-> nonce,
         ct |-> [key |-> key, nonce |-> nonce, aad |-> aad, pt |-> plaintext]]

\* r is the next value of the entropy source; the call draws one (the nonce).
aesgcm_encrypt(key, plaintext, aad, r) ==
    LET nonce == r
    IN  [nonce |-> nonce,
         ct |-> [key |-> key, nonce |-> nonce, aad |-> aad, pt |-> plaintext]]

\* A decryption that returns the plaintext without verifying the tag.
aesgcm_decrypt_unverified(key, nonce, ciphertext, aad) == Return(ciphertext.pt)

aesgcm_decrypt(key, nonce, ciphertext, aad) ==
    IF ciphertext.key = key /\ ciphertext.nonce = nonce /\ ciphertext.aad = aad
    THEN Return(ciphertext.pt)
    ELSE Raise("InvalidTag")

\* A CEK that is the same at every call.
create_cek_fixed(r) == [cek |-> 0]

create_cek(r) == [cek |-> r]

\* Draws two values: the salt (r) and, in aesgcm_encrypt, the nonce (r + 1).
wrap_cek_with_password(cek, password, r) ==
    LET salt == r
        kek == derive_key(password, salt)
        enc == aesgcm_encrypt(kek, cek, AAD_HEADER, r + 1)
    IN  [salt |-> b64encode(salt), nonce |-> b64encode(enc.nonce), ct |-> b64encode(enc.ct)]

unwrap_cek_with_password(wrapped, password) ==
    IF wrapped = Null THEN Raise("TypeError")
    ELSE LET salt == b64decode(wrapped.salt)
             nonce == b64decode(wrapped.nonce)
             ct == b64decode(wrapped.ct)
             kek == derive_key(password, salt)
         IN  aesgcm_decrypt(kek, nonce, ct, AAD_HEADER)

encrypt_payload_with_cek(cek, payload, r) ==
    LET enc == aesgcm_encrypt(cek, payload, AAD_HEADER, r)
    IN  [nonce |-> b64encode(enc.nonce), ct |-> b64encode(enc.ct)]

decrypt_payload_with_cek(cek, enc) ==
    LET nonce == b64decode(enc.nonce)
        ct == b64decode(enc.ct)
    IN  aesgcm_decrypt(cek, nonce, ct, AAD_HEADER)

create_vault_blob(cek, items_json_bytes, r) ==
    LET enc == encrypt_payload_with_cek(cek, items_json_bytes, r)
    IN  [version |-> 1,
         aad |-> b64encode(AAD_HEADER),
         file_ct |-> enc.ct,
         file_nonce |-> enc.nonce]

decrypt_vault_blob(cek, blob) ==
    LET enc == [nonce |-> blob.file_nonce, ct |-> blob.file_ct]
    IN  decrypt_payload_with_cek(cek, enc)

\* unwrap_cek_with_password(store[k], password): the KeyError of store[k]
\* when the record has no key k, else what the unwrap returns or raises.
unwrap_item(store, k, password) ==
    LET wrapped == getitem(store, k)
    IN  IF wrapped.raised THEN wrapped
        ELSE unwrap_cek_with_password(wrapped.value, password)

\* decrypt_vault_blob(cek, store["blob"])
decrypt_item(store, cek) ==
    LET blob == getitem(store, "blob")
    IN  IF blob.raised THEN blob
        ELSE decrypt_vault_blob(cek, blob.value)

-----------------------------------------------------------------------------
(* vault.py *)

REAL_FILENAME == "real.zvlt"
DECOY_FILENAME == "decoy.zvlt"

\* The two ValueError messages of unlock_real / save_real_items and the one of
\* unlock_decoy; every other exception name is a type that escapes uncaught.
UnableToUnlockVault == "ValueError: unable to unlock vault"
TwoLevelRequired == "ValueError: two-level authentication required"
UnableToUnlockDecoy == "ValueError: unable to unlock decoy"

\* json.dumps(items).encode('utf-8'): the body as a token sequence,
\* "[" then "{" name type data "}" per item, then "]".
RECURSIVE json_dumps_items(_)
json_dumps_items(items) ==
    IF items = <<>> THEN <<>>
    ELSE <<"{", Head(items).name, Head(items).type, Head(items).data, "}">>
         \o json_dumps_items(Tail(items))

json_dumps(items) == <<"[">> \o json_dumps_items(items) \o <<"]">>

\* json.loads(body_bytes.decode('utf-8')): parses the token sequence back.
json_loads(body_bytes) ==
    LET n == (Len(body_bytes) - 2) \div 5
    IN  [i \in 1..n |->
            [name |-> body_bytes[5 * (i - 1) + 3],
             type |-> body_bytes[5 * (i - 1) + 4],
             data |-> body_bytes[5 * (i - 1) + 5]]]

\* The dict with requires_l2 set by "is not None" instead of truthiness.
real_store_policy_is_not_none(l2_password, wrapped_l1, wrapped_l2, blob) ==
    [version |-> 1,
     policy |-> [requires_l2 |-> l2_password # None],
     wrapped_l1 |-> wrapped_l1,
     wrapped_l2 |-> wrapped_l2,
     blob |-> blob]

\* The dict init_new writes to real.zvlt.
real_store(l2_password, wrapped_l1, wrapped_l2, blob) ==
    [version |-> 1,
     policy |-> [requires_l2 |-> bool(l2_password)],
     wrapped_l1 |-> wrapped_l1,
     wrapped_l2 |-> wrapped_l2,
     blob |-> blob]

decoy_store(wrapped_decoy, decoy_blob) ==
    [version |-> 1, wrapped |-> wrapped_decoy, blob |-> decoy_blob]

decoy_items ==
    << [name |-> "decoy_welcome.txt", type |-> "file",
        data |-> "V2VsY29tZSB0byB0aGUgZGVjb3kgdmF1bHQuIE5vdGhpbmcgc2VjcmV0IGhlcmUuCg=="] >>

\* Number of os.urandom values init_new draws for the real vault: the CEK, the
\* blob nonce, salt and nonce of wrapped_l1 and, with an L2, of wrapped_l2.
real_draws(l2_password) == IF bool(l2_password) THEN 6 ELSE 4

\* init_new, real half: the record written to real.zvlt; r is the next
\* value of the entropy source.
init_real(l1_password, l2_password, r) ==
    LET cek == create_cek(r)
        body == json_dumps(<<>>)
        blob == create_vault_blob(cek, body, r + 1)
        wrapped_l1 == wrap_cek_with_password(cek, l1_password, r + 2)
        wrapped_l2 == IF bool(l2_password)
                      THEN wrap_cek_with_password(cek, l2_password[1], r + 4)
                      ELSE Null
    IN  real_store(l2_password, wrapped_l1, wrapped_l2, blob)

\* init_new, decoy half: the record written to decoy.zvlt.
init_decoy(decoy_password, r) ==
    LET decoy_cek == create_cek(r)
        decoy_body == json_dumps(decoy_items)
        decoy_blob == create_vault_blob(decoy_cek, decoy_body, r + 1)
        wrapped_decoy == wrap_cek_with_password(decoy_cek, decoy_password, r + 2)
    IN  decoy_store(wrapped_decoy, decoy_blob)

init_meta(l2_password) ==
    [version |-> 1,
     real |-> [file |-> REAL_FILENAME, two_level |-> bool(l2_password)],
     decoy |-> [file |-> DECOY_FILENAME]]

\* A consistency check that never fires.
ceks_never_differ(cek, cek2) == FALSE

\* The "extra check" of unlock_real and save_real_items: cek != cek2.
ceks_differ(cek, cek2) == cek # cek2

\* unlock_real on the content `store` of real.zvlt: Return(items) or Raise(exception).
unlock_real(store, l1_password, l2_password) ==
    IF store = NoFile THEN Raise("FileNotFoundError")
    ELSE
    LET policy == get(store, "policy", EmptyDict)
        requires_l2 == get(policy, "requires_l2", FALSE)
        u1 == unwrap_item(store, "wrapped_l1", l1_password)
    IN  IF u1.raised THEN Raise(UnableToUnlockVault)
        ELSE IF requires_l2 /\ ~bool(l2_password) THEN Raise(TwoLevelRequired)
        ELSE
        LET u2 == IF requires_l2
                  THEN unwrap_item(store, "wrapped_l2", l2_password[1])
                  ELSE u1
        IN  IF u2.raised THEN Raise(UnableToUnlockVault)
            ELSE IF ceks_differ(u1.value, u2.value) THEN Raise(UnableToUnlockVault)
            ELSE
            LET body_bytes == decrypt_item(store, u1.value)
            IN  IF body_bytes.raised THEN body_bytes
                ELSE Return(json_loads(body_bytes.value))

\* A save that leaves the blob alone when the new list is empty.
replace_blob_unless_empty(store, cek, items, r) ==
    IF items = <<>> THEN store
    ELSE [store EXCEPT !.blob = create_vault_blob(cek, json_dumps(items), r)]

\* A save that rebuilds the record and loses wrapped_l2.
replace_blob_drops_wrapped_l2(store, cek, items, r) ==
    [store EXCEPT !.blob = create_vault_blob(cek, json_dumps(items), r),
                  !.wrapped_l2 = Null]

\* A save that seals under a newly generated CEK.
replace_blob_new_cek(store, cek, items, r) ==
    [store EXCEPT !.blob = create_vault_blob(create_cek(r), json_dumps(items), r)]

\* The tail of save_real_items: encrypt the new body, replace store["blob"].
replace_blob(store, cek, items, r) ==
    LET body_bytes == json_dumps(items)
        blob == create_vault_blob(cek, body_bytes, r)
    IN  setitem(store, "blob", blob)

\* A save that checks L1 alone and never looks at the policy or at L2.
save_real_items_l1_only(store, l1_password, l2_password, items, r) ==
    IF store = NoFile THEN Raise("FileNotFoundError")
    ELSE
    LET u1 == unwrap_item(store, "wrapped_l1", l1_password)
    IN  IF u1.raised THEN u1
        ELSE Return(replace_blob(store, u1.value, items, r))

\* save_real_items: Return(the record written to real.zvlt) or Raise(exception),
\* in which case nothing is written.
save_real_items(store, l1_password, l2_password, items, r) ==
    IF store = NoFile THEN Raise("FileNotFoundError")
    ELSE
    LET policy == get(store, "policy", EmptyDict)
        requires_l2 == get(policy, "requires_l2", FALSE)
        u1 == unwrap_item(store, "wrapped_l1", l1_password)
    IN  IF u1.raised THEN u1
        ELSE IF requires_l2 /\ ~bool(l2_password) THEN Raise(TwoLevelRequired)
        ELSE
        LET u2 == IF requires_l2
                  THEN unwrap_item(store, "wrapped_l2", l2_password[1])
                  ELSE u1
        IN  IF u2.raised THEN u2
            ELSE IF ceks_differ(u1.value, u2.value) THEN Raise(UnableToUnlockVault)
            ELSE Return(replace_blob(store, u1.value, items, r))

unlock_decoy(store, decoy_password) ==
    IF store = NoFile THEN Raise("FileNotFoundError")
    ELSE
    LET u == unwrap_item(store, "wrapped", decoy_password)
    IN  IF u.raised THEN Raise(UnableToUnlockDecoy)
        ELSE
        LET body_bytes == decrypt_item(store, u.value)
        IN  IF body_bytes.raised THEN body_bytes
            ELSE Return(json_loads(body_bytes.value))

\* A decoy save that also wraps the CEK again, under a new salt.
save_decoy_items_rewrapping(store, decoy_password, items, r) ==
    IF store = NoFile THEN Raise("FileNotFoundError")
    ELSE
    LET u == unwrap_item(store, "wrapped", decoy_password)
    IN  IF u.raised THEN u
        ELSE Return(setitem(setitem(store, "blob",
                                    create_vault_blob(u.value, json_dumps(items), r)),
                            "wrapped", wrap_cek_with_password(u.value, decoy_password, r)))

save_decoy_items(store, decoy_password, items, r) ==
    IF store = NoFile THEN Raise("FileNotFoundError")
    ELSE
    LET u == unwrap_item(store, "wrapped", decoy_password)
    IN  IF u.raised THEN u
        ELSE
        LET body_bytes == json_dumps(items)
            blob == create_vault_blob(u.value, body_bytes, r)
        IN  Return(setitem(store, "blob", blob))

\* The (CEK, nonce) pair a blob was sealed with.
SealOf(blob) ==
    LET ct == b64decode(blob.file_ct)
    IN  [key |-> ct.key, nonce |-> ct.nonce]

-----------------------------------------------------------------------------
(* The state machine: one action per Vault method *)

\* The record of a call: the method, the password arguments (pw is L1 or the
\* decoy password, l2 is None for the decoy methods) and what came back.
Called(op, pw, l2, out) == [op |-> op, pw |-> pw, l2 |-> l2, out |-> out]

\* The CLI processes that may run at the same time on one vault directory.
Procs == {"cli1", "cli2"}

\* The state of a process that is not inside save_real_items.
Idle == [pc |-> "idle", store |-> NoFile, l1 |-> "", l2 |-> None, items |-> <<>>]

Init ==
    /\ meta = NoFile
    /\ real = NoFile
    /\ decoy = NoFile
    /\ urandom = 0
    /\ result = Called("Vault", "", None, Return(Null))
    /\ given = NoFile
    /\ sealed = <<>>
    /\ writes = 0
    /\ saving = [p \in Procs |-> Idle]

InitNew(l1_password, l2_password, decoy_password) ==
    /\ writes < MaxWrites
    /\ LET r == urandom
           rd == r + real_draws(l2_password)
           new_real == init_real(l1_password, l2_password, r)
           new_decoy == init_decoy(decoy_password, rd)
       IN  /\ meta' = init_meta(l2_password)
           /\ real' = new_real
           /\ decoy' = new_decoy
           /\ urandom' = rd + 4
           /\ given' = [l1 |-> l1_password, l2 |-> l2_password, decoy |-> decoy_password,
                        cek |-> create_cek(r), decoy_cek |-> create_cek(rd)]
           /\ sealed' = sealed \o <<SealOf(new_real.blob), SealOf(new_decoy.blob)>>
    /\ result' = Called("init_new", l1_password, l2_password, Return(Null))
    /\ writes' = writes + 1
    /\ UNCHANGED saving

\* An unlock that, when it succeeds, seals the list again and writes it back.
UnlockRealResealing(l1_password, l2_password) ==
    LET out == unlock_real(real, l1_password, l2_password)
    IN  /\ result' = Called("unlock_real", l1_password, l2_password, out)
        /\ real' = IF out.raised THEN real
                   ELSE replace_blob(real, SealOf(real.blob).key, out.value, urandom)
        /\ UNCHANGED <<meta, decoy, urandom, given, sealed, writes, saving>>

UnlockReal(l1_password, l2_password) ==
    /\ result' = Called("unlock_real", l1_password, l2_password,
                        unlock_real(real, l1_password, l2_password))
    /\ UNCHANGED <<meta, real, decoy, urandom, given, sealed, writes, saving>>

UnlockDecoy(decoy_password) ==
    /\ result' = Called("unlock_decoy", decoy_password, None,
                        unlock_decoy(decoy, decoy_password))
    /\ UNCHANGED <<meta, real, decoy, urandom, given, sealed, writes, saving>>

SaveReal(l1_password, l2_password, items) ==
    /\ writes < MaxWrites
    /\ LET w == save_real_items(real, l1_password, l2_password, items, urandom)
       IN  IF w.raised
           THEN /\ result' = Called("save_real_items", l1_password, l2_password, w)
                /\ UNCHANGED <<real, urandom, sealed, writes>>
           ELSE /\ result' = Called("save_real_items", l1_password, l2_password, Return(Null))
                /\ real' = w.value
                /\ urandom' = urandom + 1
                /\ sealed' = Append(sealed, SealOf(w.value.blob))
                /\ writes' = writes + 1
    /\ UNCHANGED <<meta, decoy, given, saving>>

SaveDecoy(decoy_password, items) ==
    /\ writes < MaxWrites
    /\ LET w == save_decoy_items(decoy, decoy_password, items, urandom)
       IN  IF w.raised
           THEN /\ result' = Called("save_decoy_items", decoy_password, None, w)
                /\ UNCHANGED <<decoy, urandom, sealed, writes>>
           ELSE /\ result' = Called("save_decoy_items", decoy_password, None, Return(Null))
                /\ decoy' = w.value
                /\ urandom' = urandom + 1
                /\ sealed' = Append(sealed, SealOf(w.value.blob))
                /\ writes' = writes + 1
    /\ UNCHANGED <<meta, real, given, saving>>

Next ==
    \/ \E l1 \in Passwords, l2 \in OptPasswords, d \in Passwords : InitNew(l1, l2, d)
    \/ \E l1 \in Passwords, l2 \in OptPasswords : UnlockReal(l1, l2)
    \/ \E d \in Passwords : UnlockDecoy(d)
    \/ \E l1 \in Passwords, l2 \in OptPasswords, items \in ItemLists : SaveReal(l1, l2, items)
    \/ \E d \in Passwords, items \in ItemLists : SaveDecoy(d, items)

Spec == Init /\ [][Next]_vars

-----------------------------------------------------------------------------
(* The files are plain JSON on disk: _read_json returns whatever they hold, *)
(* so the model also lets them be edited between two calls.                *)

Edited == Called("edit", "", None, Return(Null))

\* wrapped_l2 is replaced by another wrapped-key record found on disk: the
\* decoy's `wrapped` (src = "decoy") or the vault's own wrapped_l1 (src = "l1").
SubstituteWrappedL2(src) ==
    /\ writes < MaxWrites
    /\ real # NoFile
    /\ decoy # NoFile
    /\ real' = [real EXCEPT !.wrapped_l2 = IF src = "decoy" THEN decoy.wrapped
                                           ELSE real.wrapped_l1]
    /\ result' = Edited
    /\ writes' = writes + 1
    /\ UNCHANGED <<meta, decoy, urandom, given, sealed, saving>>

\* The aad field stored in the blob of real.zvlt is overwritten.
EditRealAad(a) ==
    /\ writes < MaxWrites
    /\ real # NoFile
    /\ b64encode(a) # real.blob.aad
    /\ real' = [real EXCEPT !.blob.aad = b64encode(a)]
    /\ result' = Edited
    /\ writes' = writes + 1
    /\ UNCHANGED <<meta, decoy, urandom, given, sealed, saving>>

\* The aad field stored in the blob of decoy.zvlt is overwritten.
EditDecoyAad(a) ==
    /\ writes < MaxWrites
    /\ decoy # NoFile
    /\ b64encode(a) # decoy.blob.aad
    /\ decoy' = [decoy EXCEPT !.blob.aad = b64encode(a)]
    /\ result' = Edited
    /\ writes' = writes + 1
    /\ UNCHANGED <<meta, real, urandom, given, sealed, saving>>

\* Values an edit may put in an aad field: another protocol tag, the empty tag.
ForeignAads == {"zentry-v2", ""}

EditAad ==
    \/ \E a \in ForeignAads : EditRealAad(a)
    \/ \E a \in ForeignAads : EditDecoyAad(a)

\* The vault methods, with wrapped_l2 open to substitution.
NextSubstituted == Next \/ \E src \in {"decoy", "l1"} : SubstituteWrappedL2(src)

SpecSubstituted == Init /\ [][NextSubstituted]_vars

\* The vault methods, with the stored aad fields open to edits.
NextAadEdited == Next \/ EditAad

SpecAadEdited == Init /\ [][NextAadEdited]_vars

\* A ciphertext whose bytes were changed after encryption: its tag belongs
\* to no key.
modified(ciphertext) == [ciphertext EXCEPT !.key = [nokey |-> TRUE]]

\* file_ct of the blob of real.zvlt is modified.
EditRealCt ==
    /\ writes < MaxWrites
    /\ real # NoFile
    /\ real' = [real EXCEPT !.blob.file_ct = b64encode(modified(b64decode(@)))]
    /\ result' = Edited
    /\ writes' = writes + 1
    /\ UNCHANGED <<meta, decoy, urandom, given, sealed, saving>>

\* file_nonce of the blob of real.zvlt is modified.
EditRealNonce ==
    /\ writes < MaxWrites
    /\ real # NoFile
    /\ real' = [real EXCEPT !.blob.file_nonce = b64encode(b64decode(@) + 1)]
    /\ result' = Edited
    /\ writes' = writes + 1
    /\ UNCHANGED <<meta, decoy, urandom, given, sealed, saving>>

\* file_ct of the blob of decoy.zvlt is modified.
EditDecoyCt ==
    /\ writes < MaxWrites
    /\ decoy # NoFile
    /\ decoy' = [decoy EXCEPT !.blob.file_ct = b64encode(modified(b64decode(@)))]
    /\ result' = Edited
    /\ writes' = writes + 1
    /\ UNCHANGED <<meta, real, urandom, given, sealed, saving>>

\* file_nonce of the blob of decoy.zvlt is modified.
EditDecoyNonce ==
    /\ writes < MaxWrites
    /\ decoy # NoFile
    /\ decoy' = [decoy EXCEPT !.blob.file_nonce = b64encode(b64decode(@) + 1)]
    /\ result' = Edited
    /\ writes' = writes + 1
    /\ UNCHANGED <<meta, real, urandom, given, sealed, saving>>

\* The blobs of real.zvlt and decoy.zvlt are exchanged: each vault's CEK then
\* meets a blob sealed under the other CEK.
SwapBlobs ==
    /\ writes < MaxWrites
    /\ real # NoFile
    /\ decoy # NoFile
    /\ real' = [real EXCEPT !.blob = decoy.blob]
    /\ decoy' = [decoy EXCEPT !.blob = real.blob]
    /\ result' = Edited
    /\ writes' = writes + 1
    /\ UNCHANGED <<meta, urandom, given, sealed, saving>>

EditBlob ==
    \/ EditRealCt
    \/ EditRealNonce
    \/ EditDecoyCt
    \/ EditDecoyNonce
    \/ SwapBlobs

\* The vault methods, with the persisted blobs open to edits.
NextBlobEdited == Next \/ EditBlob

SpecBlobEdited == Init /\ [][NextBlobEdited]_vars

\* A field of real.zvlt is deleted from the file.
DropRealField(f) ==
    /\ writes < MaxWrites
    /\ real # NoFile
    /\ f \in DOMAIN real
    /\ real' = delitem(real, f)
    /\ result' = Edited
    /\ writes' = writes + 1
    /\ UNCHANGED <<meta, decoy, urandom, given, sealed, saving>>

\* A field of decoy.zvlt is deleted from the file.
DropDecoyField(f) ==
    /\ writes < MaxWrites
    /\ decoy # NoFile
    /\ f \in DOMAIN decoy
    /\ decoy' = delitem(decoy, f)
    /\ result' = Edited
    /\ writes' = writes + 1
    /\ UNCHANGED <<meta, real, urandom, given, sealed, saving>>

\* The keys unlock_real and save_real_items read with store[...], and the
\* keys unlock_decoy and save_decoy_items read.
RealFields == {"wrapped_l1", "wrapped_l2", "blob"}
DecoyFields == {"wrapped", "blob"}

DropField ==
    \/ \E f \in RealFields : DropRealField(f)
    \/ \E f \in DecoyFields : DropDecoyField(f)

\* The vault methods, with the fields of the persisted records open to deletion.
NextFieldDropped == Next \/ DropField

SpecFieldDropped == Init /\ [][NextFieldDropped]_vars

-----------------------------------------------------------------------------
(* Two CLI processes on one vault directory.  save_real_items touches the *)
(* file twice, with no lock: it reads it at its first statement and writes *)
(* it at its last; everything in between works on the copy it read.        *)

\* First statement of save_real_items: store = self._read_json(self.real_path).
\* The process was started with the passwords given to init_new.
SaveRealRead(p, items) ==
    /\ saving[p].pc # "read"
    /\ real # NoFile
    /\ saving' = [saving EXCEPT ![p] = [pc |-> "read", store |-> real,
                                        l1 |-> given.l1, l2 |-> given.l2,
                                        items |-> items]]
    /\ UNCHANGED <<meta, real, decoy, urandom, result, given, sealed, writes>>

\* A write that reads the file again and appends its list to the one on disk.
SaveRealWriteMerging(p) ==
    /\ saving[p].pc = "read"
    /\ writes < MaxWrites
    /\ LET my == saving[p]
           on_disk == unlock_real(real, my.l1, my.l2)
           merged == IF on_disk.raised THEN my.items
                     ELSE on_disk.value \o my.items
           w == save_real_items(real, my.l1, my.l2, merged, urandom)
       IN  IF w.raised
           THEN /\ result' = Called("save_real_items", my.l1, my.l2, w)
                /\ UNCHANGED <<real, urandom, sealed, writes>>
           ELSE /\ result' = Called("save_real_items", my.l1, my.l2, Return(Null))
                /\ real' = w.value
                /\ urandom' = urandom + 1
                /\ sealed' = Append(sealed, SealOf(w.value.blob))
                /\ writes' = writes + 1
    /\ saving' = [saving EXCEPT ![p].pc = "done"]
    /\ UNCHANGED <<meta, decoy, given>>

\* The rest of save_real_items, on the record read earlier: the credential
\* checks, the new blob, and the write of the whole record to real.zvlt.
SaveRealWrite(p) ==
    /\ saving[p].pc = "read"
    /\ writes < MaxWrites
    /\ LET my == saving[p]
           w == save_real_items(my.store, my.l1, my.l2, my.items, urandom)
       IN  IF w.raised
           THEN /\ result' = Called("save_real_items", my.l1, my.l2, w)
                /\ UNCHANGED <<real, urandom, sealed, writes>>
           ELSE /\ result' = Called("save_real_items", my.l1, my.l2, Return(Null))
                /\ real' = w.value
                /\ urandom' = urandom + 1
                /\ sealed' = Append(sealed, SealOf(w.value.blob))
                /\ writes' = writes + 1
    /\ saving' = [saving EXCEPT ![p].pc = "done"]
    /\ UNCHANGED <<meta, decoy, given>>

\* init_new, run while no save_real_items call is between its read and its
\* write: the processes that race are the saves.
InitNewAlone(l1_password, l2_password, decoy_password) ==
    /\ \A p \in Procs : saving[p].pc # "read"
    /\ InitNew(l1_password, l2_password, decoy_password)

NextConcurrent ==
    \/ \E l1 \in Passwords, l2 \in OptPasswords, d \in Passwords : InitNewAlone(l1, l2, d)
    \/ \E p \in Procs, items \in ItemLists : SaveRealRead(p, items)
    \/ \E p \in Procs : SaveRealWrite(p)

SpecConcurrent == Init /\ [][NextConcurrent]_vars

-----------------------------------------------------------------------------
(* cli.py: cmd_export *)

\* What the user may type at a password prompt: a password, or just Enter.
Typed == Passwords \cup {""}

\* File names the user may ask for.
FileNames == {"f.txt", "decoy_welcome.txt"}

\* base64.urlsafe_b64decode on the data strings of the items of the model.
urlsafe_b64decode(s) ==
    CASE s = "cA==" -> "p"
      [] s = "cQ==" -> "q"
      [] s = decoy_items[1].data
             -> "Welcome to the decoy vault. Nothing secret here.\n"

\* What cmd_export did: wrote `data` to outdir / fname, or wrote nothing and
\* printed "File not found or unable to decrypt."
Exported(data) == [exported |-> TRUE, data |-> data]
NotExported == [exported |-> FALSE, data |-> ""]

\* A scan that keeps going and exports the last item of that name.
RECURSIVE search_last(_, _)
search_last(items, fname) ==
    IF items = <<>> THEN NotExported
    ELSE IF items[Len(items)].name = fname
         THEN Exported(urlsafe_b64decode(items[Len(items)].data))
         ELSE search_last(SubSeq(items, 1, Len(items) - 1), fname)

\* for it in items: if it.get("name") == fname: write and return
RECURSIVE search(_, _)
search(items, fname) ==
    IF items = <<>> THEN NotExported
    ELSE IF Head(items).name = fname
         THEN Exported(urlsafe_b64decode(Head(items).data))
         ELSE search(Tail(items), fname)

\* cmd_export on the two records, with the file name asked for and what is
\* typed at the L1, L2 and decoy prompts (l2_try and decoy_pw are only asked
\* for on the paths that reach their prompt).
cmd_export(real_rec, decoy_rec, fname, l1, l2_try, decoy_pw) ==
    LET first == unlock_real(real_rec, l1, None)
        opened == IF l1 = "" THEN Raise("skipped")
                  ELSE IF ~first.raised THEN first
                  ELSE IF l2_try # "" THEN unlock_real(real_rec, l1, Some(l2_try))
                  ELSE first
        in_real == IF opened.raised THEN NotExported
                   ELSE search(opened.value, fname)
    IN  IF in_real.exported THEN in_real
        ELSE IF decoy_pw = "" THEN NotExported
        ELSE LET d == unlock_decoy(decoy_rec, decoy_pw)
             IN  IF d.raised THEN NotExported
                 ELSE search(d.value, fname)

Export(fname, l1, l2_try, decoy_pw) ==
    /\ result' = Called("cmd_export", l1, Some(l2_try),
                        Return(cmd_export(real, decoy, fname, l1, l2_try, decoy_pw)))
    /\ UNCHANGED <<meta, real, decoy, urandom, given, sealed, writes, saving>>

\* The commands that write the vaults, and export.
NextExport ==
    \/ \E l1 \in Passwords, l2 \in OptPasswords, d \in Passwords : InitNew(l1, l2, d)
    \/ \E l1 \in Passwords, l2 \in OptPasswords, items \in ItemLists : SaveReal(l1, l2, items)
    \/ \E d \in Passwords, items \in ItemLists : SaveDecoy(d, items)
    \/ \E fname \in FileNames, l1 \in Typed, l2_try \in Typed, decoy_pw \in Typed :
           Export(fname, l1, l2_try, decoy_pw)

SpecExport == Init /\ [][NextExport]_vars

\* policy.requires_l2 of real.zvlt is changed from true to false in the file;
\* the wrapped keys and the blob are left as they are.
FlipRequiresL2 ==
    /\ writes < MaxWrites
    /\ real # NoFile
    /\ get(get(real, "policy", EmptyDict), "requires_l2", FALSE)
    /\ real' = [real EXCEPT !.policy.requires_l2 = FALSE]
    /\ result' = Edited
    /\ writes' = writes + 1
    /\ UNCHANGED <<meta, decoy, urandom, given, sealed, saving>>

\* The vault methods, with the policy of real.zvlt open to this edit.
NextPolicyEdited == Next \/ FlipRequiresL2

SpecPolicyEdited == Init /\ [][NextPolicyEdited]_vars

-----------------------------------------------------------------------------
(* Properties *)

\* The last call was `op` and it returned normally.
Returned(op) == result.op = op /\ ~result.out.raised

\* C1: for a vault initialized with an L2 password (any supplied string),
\* unlock_real returns the item list only when called with the L1 and the L2
\* given to init_new.
C1_UnlockRealNeedsBothPasswords ==
    (Returned("unlock_real") /\ given.l2 # None)
        => (result.pw = given.l1 /\ result.l2 = given.l2)

\* C1 restricted to a non-empty L2: there the list is returned only for the
\* two passwords of init_new.
C1_HoldsForNonEmptyL2 ==
    (Returned("unlock_real") /\ bool(given.l2))
        => (result.pw = given.l1 /\ result.l2 = given.l2)

\* C2: unlock_real reports "second factor required" exactly when L1 is
\* correct, the policy requires L2 and no L2 is supplied (None); a wrong L1
\* with no L2, and a correct L1 with a wrong L2, report the opaque failure.
C2_SecondFactorRequiredExactly ==
    (result.op = "unlock_real" /\ real # NoFile) =>
        LET l1_ok == result.pw = given.l1
            two == real.policy.requires_l2
        IN  /\ (result.out = Raise(TwoLevelRequired)) <=> (l1_ok /\ two /\ result.l2 = None)
            /\ (~l1_ok /\ two /\ result.l2 = None)
                   => result.out = Raise(UnableToUnlockVault)
            /\ (l1_ok /\ two /\ result.l2 # None /\ result.l2 # given.l2)
                   => result.out = Raise(UnableToUnlockVault)

\* C2 with the empty string counted as "no L2 supplied", as the code counts it.
C2_HoldsWithEmptyAsMissing ==
    (result.op = "unlock_real" /\ real # NoFile) =>
        LET l1_ok == result.pw = given.l1
            two == real.policy.requires_l2
        IN  /\ (result.out = Raise(TwoLevelRequired)) <=> (l1_ok /\ two /\ ~bool(result.l2))
            /\ (~l1_ok /\ two /\ ~bool(result.l2))
                   => result.out = Raise(UnableToUnlockVault)
            /\ (l1_ok /\ two /\ bool(result.l2) /\ result.l2 # given.l2)
                   => result.out = Raise(UnableToUnlockVault)

\* C3: a save that succeeds is a full replace that round-trips: unlocking the
\* written record with the same passwords returns exactly the saved list,
\* for the real vault and for the decoy.
C3_SaveThenUnlockRoundTrips ==
    [][ /\ \A l1 \in Passwords, l2 \in OptPasswords, items \in ItemLists :
              (SaveReal(l1, l2, items) /\ ~result'.out.raised)
                  => unlock_real(real', l1, l2) = Return(items)
        /\ \A d \in Passwords, items \in ItemLists :
              (SaveDecoy(d, items) /\ ~result'.out.raised)
                  => unlock_decoy(decoy', d) = Return(items) ]_vars

\* A two-item list was saved over an earlier save and unlocks to itself.
C3_Witness ==
    /\ Returned("save_real_items")
    /\ Len(sealed) >= 4
    /\ unlock_real(real, result.pw, result.l2) = Return(<<Item2, Item1>>)

\* C4: when the L1 and decoy passwords differ, unlock_real with the decoy
\* password as L1 fails whatever L2 is supplied, and unlock_decoy with the L1
\* password fails.
C4_DecoyIndependence ==
    (real # NoFile /\ given.l1 # given.decoy) =>
        /\ \A l2 \in OptPasswords : unlock_real(real, given.decoy, l2).raised
        /\ unlock_decoy(decoy, given.l1).raised

\* unlock_real was called with the decoy password on a vault that holds items.
C4_Witness ==
    /\ result.op = "unlock_real"
    /\ real # NoFile
    /\ given.l1 # given.decoy
    /\ result.pw = given.decoy
    /\ result.out.raised
    /\ unlock_real(real, given.l1, given.l2) = Return(<<Item1>>)

\* Both wrapped keys unwrap under (l1, l2), to different CEKs, on a record
\* whose policy requires L2.
CekMismatch(store, l1, l2) ==
    /\ store # NoFile
    /\ store.policy.requires_l2
    /\ bool(l2)
    /\ LET u1 == unwrap_cek_with_password(store.wrapped_l1, l1)
           u2 == unwrap_cek_with_password(store.wrapped_l2, l2[1])
       IN  ~u1.raised /\ ~u2.raised /\ u1.value # u2.value

\* C5: when the two wrapped keys unwrap to different CEKs, unlock_real raises
\* the opaque failure and save_real_items raises and leaves real.zvlt as it was.
C5_TwoLevelConsistency ==
    /\ [](\A l1 \in Passwords, l2 \in OptPasswords :
              CekMismatch(real, l1, l2)
                  => unlock_real(real, l1, l2) = Raise(UnableToUnlockVault))
    /\ [][ \A l1 \in Passwords, l2 \in OptPasswords, items \in ItemLists :
              (CekMismatch(real, l1, l2) /\ SaveReal(l1, l2, items))
                  => (result'.out.raised /\ real' = real) ]_vars

\* unlock_real was called with passwords that unwrap to two different CEKs.
C5_Witness ==
    /\ result.op = "unlock_real"
    /\ CekMismatch(real, result.pw, result.l2)
    /\ result.out = Raise(UnableToUnlockVault)

\* C6: a save_real_items that succeeds changes only the blob field of
\* real.zvlt: version, policy, wrapped_l1 and wrapped_l2 keep their values.
C6_SaveRealChangesOnlyBlob ==
    [][ \A l1 \in Passwords, l2 \in OptPasswords, items \in ItemLists :
            (SaveReal(l1, l2, items) /\ ~result'.out.raised)
                => /\ DOMAIN real' = DOMAIN real
                   /\ real'.version = real.version
                   /\ real'.policy = real.policy
                   /\ real'.wrapped_l1 = real.wrapped_l1
                   /\ real'.wrapped_l2 = real.wrapped_l2 ]_vars

\* A save succeeded on a two-level vault and wrote a new blob.
C6_Witness ==
    /\ Returned("save_real_items")
    /\ real.policy.requires_l2
    /\ real.wrapped_l2 # Null
    /\ unlock_real(real, given.l1, given.l2) = Return(<<Item1>>)

\* C7: in real.zvlt as written by init_new and save_real_items, wrapped_l2 is
\* present exactly when policy.requires_l2 is true.
C7_WrappedL2IffRequiresL2 ==
    real # NoFile => ((real.wrapped_l2 # Null) <=> real.policy.requires_l2)

\* init_new got the empty string as L2 and a save followed.
C7_Witness ==
    /\ Returned("save_real_items")
    /\ given.l2 = Some("")
    /\ real.wrapped_l2 = Null
    /\ ~real.policy.requires_l2

\* C8: after init_new and any saves, wrapped_l1 (and wrapped_l2 when present)
\* unwrap to the CEK generated by that init_new and the blob is sealed under
\* that CEK.
C8_CekNeverRotatedInPlace ==
    real # NoFile =>
        /\ unwrap_cek_with_password(real.wrapped_l1, given.l1) = Return(given.cek)
        /\ real.wrapped_l2 # Null
              => unwrap_cek_with_password(real.wrapped_l2, given.l2[1]) = Return(given.cek)
        /\ SealOf(real.blob).key = given.cek
        /\ ~decrypt_vault_blob(given.cek, real.blob).raised

\* Two blobs have been sealed under the real CEK, the second by a save.
C8_Witness ==
    /\ Returned("save_real_items")
    /\ Cardinality({i \in DOMAIN sealed : sealed[i].key = given.cek}) >= 2

\* C9: no blob is sealed with a (CEK, nonce) pair that sealed an earlier blob.
C9_NonceFreshness ==
    \A i, j \in DOMAIN sealed : i # j => sealed[i] # sealed[j]

\* Three blobs sealed under one CEK: by init_new and by two saves.
C9_Witness ==
    \E i \in DOMAIN sealed :
        Cardinality({j \in DOMAIN sealed : sealed[j].key = sealed[i].key}) >= 3

\* C10: when the aad field stored in a blob is not the protocol tag, unlocking
\* that vault fails.
C10_OpenChecksStoredAad ==
    /\ (result.op = "unlock_real" /\ real # NoFile
            /\ real.blob.aad # b64encode(AAD_HEADER)) => result.out.raised
    /\ (result.op = "unlock_decoy" /\ decoy # NoFile
            /\ decoy.blob.aad # b64encode(AAD_HEADER)) => result.out.raised

\* The blob carries the ciphertext and nonce of some body sealed under cek.
SealedUnder(blob, cek) ==
    \E n \in 0..urandom, items \in ItemLists \cup {decoy_items} :
        LET b == create_vault_blob(cek, json_dumps(items), n)
        IN  blob.file_ct = b.file_ct /\ blob.file_nonce = b.file_nonce

\* C11: when the ciphertext or the nonce of a persisted blob was modified, or
\* the blob was sealed under another CEK than the one the vault's wrapped key
\* holds, unlock_real / unlock_decoy raise and return no item list.
C11_TamperedBlobNeverOpens ==
    /\ (result.op = "unlock_real" /\ real # NoFile
            /\ ~SealedUnder(real.blob, given.cek)) => result.out.raised
    /\ (result.op = "unlock_decoy" /\ decoy # NoFile
            /\ ~SealedUnder(decoy.blob, given.decoy_cek)) => result.out.raised

\* unlock_real was called with the passwords of init_new on a record whose
\* blob was modified or exchanged, and raised.
C11_Witness ==
    /\ result.op = "unlock_real"
    /\ real # NoFile
    /\ result.pw = given.l1
    /\ result.l2 = given.l2
    /\ ~SealedUnder(real.blob, given.cek)
    /\ result.out.raised

\* The failures the Vault methods raise themselves: the ValueErrors.
VaultErrors == {UnableToUnlockVault, TwoLevelRequired, UnableToUnlockDecoy}

\* C12: on an initialized vault, every failure of unlock_real,
\* save_real_items, unlock_decoy and save_decoy_items that comes from a wrong
\* password or a modified blob is one of the vault's own ValueErrors, never an
\* exception of the cryptography library.
C12_FailuresAreVaultErrors ==
    (result.op \in {"unlock_real", "save_real_items", "unlock_decoy", "save_decoy_items"}
        /\ real # NoFile /\ decoy # NoFile /\ result.out.raised)
            => result.out.exc \in VaultErrors

\* C12 for the unlock methods on records nobody edited: there a wrong
\* password is always answered with a ValueError.
C12_HoldsForUnlockOfUneditedRecords ==
    (result.op \in {"unlock_real", "unlock_decoy"}
        /\ real # NoFile /\ decoy # NoFile /\ result.out.raised)
            => result.out.exc \in VaultErrors

\* The fields a real record must carry: wrapped_l1, blob, and wrapped_l2 when
\* its policy requires L2.
RequiredOfReal(store) ==
    {"wrapped_l1", "blob"}
        \cup (IF get(get(store, "policy", EmptyDict), "requires_l2", FALSE)
              THEN {"wrapped_l2"} ELSE {})

\* The record has lost one of the fields in `required`.
Lacks(store, required) == store # NoFile /\ ~(required \subseteq DOMAIN store)

\* C13: when real.zvlt / decoy.zvlt lacks a required field, unlock_real /
\* unlock_decoy raise, whatever the passwords, a failure of another kind than
\* the ValueErrors that report a wrong password.
C13_MissingFieldIsNotAuthenticationFailure ==
    /\ (result.op = "unlock_real" /\ Lacks(real, RequiredOfReal(real)))
           => (result.out.raised /\ result.out.exc \notin VaultErrors)
    /\ (result.op = "unlock_decoy" /\ Lacks(decoy, DecoyFields))
           => (result.out.raised /\ result.out.exc \notin VaultErrors)

\* What the code does on a record that lacks a required field: it always
\* raises, and the failure is a KeyError only when the missing field is the
\* blob and the passwords are right.
C13_MissingFieldAlwaysRaises ==
    /\ (result.op = "unlock_real" /\ Lacks(real, RequiredOfReal(real)))
           => /\ result.out.raised
              /\ result.out.exc \in {UnableToUnlockVault, TwoLevelRequired, "KeyError"}
              /\ result.out.exc = "KeyError" => "blob" \notin DOMAIN real
    /\ (result.op = "unlock_decoy" /\ Lacks(decoy, DecoyFields))
           => /\ result.out.raised
              /\ result.out.exc \in {UnableToUnlockDecoy, "KeyError"}
              /\ result.out.exc = "KeyError" => "blob" \notin DOMAIN decoy

\* The credential checks fail on `store`: L1 does not unwrap wrapped_l1, or
\* the policy requires L2 and L2 is absent, does not unwrap wrapped_l2, or
\* unwraps it to another CEK than L1 does.
CredentialsFail(store, l1, l2) ==
    \/ unwrap_item(store, "wrapped_l1", l1).raised
    \/ /\ store.policy.requires_l2
       /\ \/ l2 = None
          \/ unwrap_item(store, "wrapped_l2", l2[1]).raised
          \/ CekMismatch(store, l1, l2)

\* C14: save_real_items accepts exactly the credentials unlock_real accepts,
\* and when the credential checks fail it raises and real.zvlt is what it was
\* before the call; save_decoy_items with a password that does not unwrap the
\* decoy key raises and leaves decoy.zvlt as it was.
C14_FailedSaveWritesNothing ==
    [][ /\ \A l1 \in Passwords, l2 \in OptPasswords, items \in ItemLists :
              (SaveReal(l1, l2, items) /\ real # NoFile)
                  => /\ result'.out.raised <=> unlock_real(real, l1, l2).raised
                     /\ CredentialsFail(real, l1, l2)
                            => (result'.out.raised /\ real' = real)
        /\ \A d \in Passwords, items \in ItemLists :
              (SaveDecoy(d, items) /\ decoy # NoFile
                   /\ unwrap_item(decoy, "wrapped", d).raised)
                  => (result'.out.raised /\ decoy' = decoy) ]_vars

\* save_real_items was refused, with the right L1 and an L2 that unwraps
\* wrapped_l2 to another CEK, and the blob still is the one init_new sealed.
C14_Witness ==
    /\ result.op = "save_real_items"
    /\ result.out.raised
    /\ CekMismatch(real, result.pw, result.l2)
    /\ result.pw = given.l1
    /\ decrypt_item(real, given.cek) = Return(json_dumps(<<>>))

\* C15: the real.zvlt written by init_new has policy.requires_l2 true exactly
\* when the L2 argument is not None, the empty string included, and a supplied
\* L2 always leaves a wrapped_l2 record.
C15_RequiresL2IffL2Supplied ==
    real # NoFile =>
        /\ real.policy.requires_l2 <=> (given.l2 # None)
        /\ (given.l2 # None) => real.wrapped_l2 # Null

\* C15 with the empty string counted as no L2, as init_new counts it.
C15_HoldsWithEmptyAsMissing ==
    real # NoFile =>
        /\ real.policy.requires_l2 <=> bool(given.l2)
        /\ bool(given.l2) => real.wrapped_l2 # Null

\* C16: right after init_new, unlock_real with the L1 and L2 given to it
\* returns the empty list, unlock_decoy with the decoy password returns exactly
\* the one welcome item, and the two blobs are sealed under two different CEKs,
\* each the one its vault's wrapped key holds.
C16_FreshVaults ==
    result.op = "init_new" =>
        /\ unlock_real(real, given.l1, given.l2) = Return(<<>>)
        /\ unlock_decoy(decoy, given.decoy) = Return(decoy_items)
        /\ Len(decoy_items) = 1
        /\ decoy_items[1].name = "decoy_welcome.txt"
        /\ LET cek == unwrap_item(real, "wrapped_l1", given.l1)
               decoy_cek == unwrap_item(decoy, "wrapped", given.decoy)
           IN  /\ ~cek.raised /\ ~decoy_cek.raised
               /\ cek.value # decoy_cek.value
               /\ SealOf(real.blob).key = cek.value
               /\ SealOf(decoy.blob).key = decoy_cek.value

\* init_new ran again over a vault that had been saved to, with an L2 and
\* with the same string as L1 and as decoy password.
C16_Witness ==
    /\ result.op = "init_new"
    /\ Len(sealed) >= 5
    /\ given.l2 # None
    /\ given.l1 = given.decoy

\* C17: a call of unlock_real or unlock_decoy, whether it returns or raises,
\* leaves meta.json, real.zvlt and decoy.zvlt exactly as they were.
C17_UnlockWritesNothing ==
    [][ /\ (\E l1 \in Passwords, l2 \in OptPasswords : UnlockReal(l1, l2))
               => UNCHANGED <<meta, real, decoy>>
        /\ (\E d \in Passwords : UnlockDecoy(d))
               => UNCHANGED <<meta, real, decoy>>
        /\ result'.op \in {"unlock_real", "unlock_decoy"}
               => UNCHANGED <<meta, real, decoy>> ]_vars

\* unlock_real returned a saved list, on a vault whose decoy blob was edited.
C17_Witness ==
    /\ Returned("unlock_real")
    /\ result.out.value = <<Item1>>
    /\ ~SealedUnder(decoy.blob, given.decoy_cek)

\* C18: save_real_items never changes decoy.zvlt or meta.json;
\* save_decoy_items never changes real.zvlt or meta.json, and of decoy.zvlt
\* it changes the blob only: version and wrapped keep their values.
C18_SavesTouchOnlyTheirBlob ==
    [][ /\ \A l1 \in Passwords, l2 \in OptPasswords, items \in ItemLists :
              SaveReal(l1, l2, items) => UNCHANGED <<meta, decoy>>
        /\ \A d \in Passwords, items \in ItemLists :
              SaveDecoy(d, items)
                  => /\ UNCHANGED <<meta, real>>
                     /\ decoy # NoFile
                            => /\ DOMAIN decoy' = DOMAIN decoy
                               /\ decoy'.version = decoy.version
                               /\ decoy'.wrapped = decoy.wrapped ]_vars

\* save_decoy_items wrote a two-item list while the real vault held a saved
\* item.
C18_Witness ==
    /\ Returned("save_decoy_items")
    /\ unlock_decoy(decoy, given.decoy) = Return(<<Item2, Item1>>)
    /\ unlock_real(real, given.l1, given.l2) = Return(<<Item1>>)

\* C19: when save_real_items calls made with the passwords of the vault
\* interleave their read and their write, each write that succeeds leaves in
\* real.zvlt the record that call read with only the blob replaced, and that
\* record unlocks, under the call's passwords and under those of init_new, to
\* exactly the list of that call: the last writer's list, nothing of the other.
C19_LastWriterWins ==
    [][ \A p \in Procs :
            SaveRealWrite(p)
                => /\ ~result'.out.raised
                   /\ real' = setitem(saving[p].store, "blob", real'.blob)
                   /\ unlock_real(real', saving[p].l1, saving[p].l2)
                          = Return(saving[p].items)
                   /\ unlock_real(real', given.l1, given.l2)
                          = Return(saving[p].items) ]_vars

\* Both processes read the same record, then both wrote: real.zvlt holds the
\* two-item list of one of them and the one-item list of the other is gone.
C19_Witness ==
    /\ Returned("save_real_items")
    /\ \A p \in Procs : saving[p].pc = "done"
    /\ saving["cli1"].store = saving["cli2"].store
    /\ saving["cli1"].items = <<Item1>>
    /\ saving["cli2"].items = <<Item2, Item1>>
    /\ Len(sealed) = 4
    /\ unlock_real(real, given.l1, given.l2) = Return(<<Item2, Item1>>)

\* Some item of the list has that name.
HasName(items, fname) == \E i \in DOMAIN items : items[i].name = fname

\* The payload of the item with the lowest index among those of that name.
LowestMatch(items, fname) ==
    LET i == CHOOSE i \in DOMAIN items :
                 /\ items[i].name = fname
                 /\ \A j \in 1..(i - 1) : items[j].name # fname
    IN  Exported(urlsafe_b64decode(items[i].data))

\* What the claim expects of an export of fname with l1, l2_try and decoy_pw
\* typed at the prompts.
ExpectedExport(fname, l1, l2_try, decoy_pw) ==
    LET u0 == unlock_real(real, l1, None)
        u1 == unlock_real(real, l1, Some(l2_try))
        real_opened == l1 # "" /\ (~u0.raised \/ (l2_try # "" /\ ~u1.raised))
        real_items == IF ~real_opened THEN <<>>
                      ELSE IF ~u0.raised THEN u0.value ELSE u1.value
        ud == unlock_decoy(decoy, decoy_pw)
        decoy_opened == decoy_pw # "" /\ ~ud.raised
        decoy_list == IF decoy_opened THEN ud.value ELSE <<>>
    IN  IF HasName(real_items, fname) THEN LowestMatch(real_items, fname)
        ELSE IF HasName(decoy_list, fname) THEN LowestMatch(decoy_list, fname)
        ELSE NotExported

\* C20: cmd_export writes the payload of the lowest-index item of the asked
\* name, taken from the real vault whenever the real vault was opened and has
\* an item of that name; the decoy is used only when the real vault was
\* skipped, did not unlock, or has no item of that name; else nothing is
\* written.  This holds of every export that can be run on the files as they
\* are, and of the export that was just run.
C20_ExportFirstMatchRealFirst ==
    /\ \A fname \in FileNames, l1 \in Typed, l2_try \in Typed, decoy_pw \in Typed :
           cmd_export(real, decoy, fname, l1, l2_try, decoy_pw)
               = ExpectedExport(fname, l1, l2_try, decoy_pw)
    /\ result.op = "cmd_export"
           => \E fname \in FileNames, decoy_pw \in Typed :
                  result.out.value
                      = ExpectedExport(fname, result.pw, result.l2[1], decoy_pw)

\* f.txt was exported with the payload of Item2 while the real vault held
\* <<Item2, Item1>> and the decoy held an f.txt of its own.
C20_Witness ==
    /\ result.op = "cmd_export"
    /\ result.out = Return(Exported("q"))
    /\ unlock_real(real, given.l1, given.l2) = Return(<<Item2, Item1>>)
    /\ unlock_decoy(decoy, given.decoy) = Return(<<Item1>>)

\* real.zvlt is the record of a two-level vault (it carries a wrapped_l2 that
\* the L2 of init_new unwraps) whose policy.requires_l2 now reads false.
PolicySwitchedOff ==
    /\ real # NoFile
    /\ bool(given.l2)
    /\ real.wrapped_l2 # Null
    /\ ~real.policy.requires_l2

\* C21: on a vault initialized with an L2 whose policy.requires_l2 was changed
\* from true to false in the file, wrapped keys and blob untouched,
\* unlock_real with the right L1 and no L2 does not return the item list.
C21_PolicyEditDoesNotDropL2 ==
    (result.op = "unlock_real" /\ PolicySwitchedOff
        /\ result.pw = given.l1 /\ result.l2 = None)
            => result.out.raised

\* With the policy untouched the requirement stands: on a two-level record
\* whose requires_l2 is true, unlock_real without L2 never returns the list.
C21_HoldsWhilePolicyIsTrue ==
    (result.op = "unlock_real" /\ real # NoFile /\ real.policy.requires_l2
        /\ result.l2 = None)
            => result.out.raised

====
